---- MODULE Spec2Model ----
(***************************************************************************)
(* RedMansionRAG (src/rag_system.py): the retrieval engine.  Corpus files  *)
(* are loaded into documents, split into chunks, indexed with a TF-IDF     *)
(* vectorizer, and both stages are cached on disk as two artifacts.        *)
(* Queries are ranked by cosine similarity and handed to a generation      *)
(* service.                                                                *)
(*                                                                         *)
(* A text is a sequence of lexical symbols (the units jieba segments it    *)
(* into); CharLen gives the number of characters of each.  Floats are      *)
(* fixed-point integers: weights in 1/100, similarities in 1/10000.        *)
(***************************************************************************)
EXTENDS Integers, Sequences, FiniteSets, TLC

(* ------------------------------------------------------------------ *)
(* Bounds of the model                                                 *)
(* ------------------------------------------------------------------ *)
\* top_k ranges over 1..MaxTopK (the front-end's slider gives 1..20)
MaxTopK == 2

(* ------------------------------------------------------------------ *)
(* Generic helpers                                                     *)
(* ------------------------------------------------------------------ *)
Min(a, b) == IF a <= b THEN a ELSE b
Max(a, b) == IF a >= b THEN a ELSE b

RECURSIVE SeqSum(_)
SeqSum(s) == IF s = <<>> THEN 0 ELSE Head(s) + SeqSum(Tail(s))

RECURSIVE Flatten(_)
Flatten(ss) == IF ss = <<>> THEN <<>> ELSE Head(ss) \o Flatten(Tail(ss))

Reverse(s) == [i \in 1..Len(s) |-> s[Len(s) + 1 - i]]

Range(s) == {s[i] : i \in 1..Len(s)}

Count(s, x) == Cardinality({i \in 1..Len(s) : s[i] = x})

RECURSIVE ISqrtBin(_, _, _)
ISqrtBin(x, lo, hi) ==
    IF lo >= hi THEN lo
    ELSE LET mid == (lo + hi + 1) \div 2
         IN  IF mid * mid <= x THEN ISqrtBin(x, mid, hi)
             ELSE ISqrtBin(x, lo, mid - 1)

\* floor of the square root (numpy's sqrt, in fixed point)
ISqrt(x) == ISqrtBin(x, 0, 46340)

(* ------------------------------------------------------------------ *)
(* Text: symbols, characters, case                                     *)
(* ------------------------------------------------------------------ *)
\* "." "!" "?" stand for the three sentence terminators of the regular
\* expression, "," for a non-terminal punctuation mark, " " for white space;
\* "de" is a one-character stop word, "meiyou" a two-character stop word,
\* "shi" a run of 298 one-character words (a long passage of verse).
Terminators == {".", "!", "?"}
Whitespace == {" "}

CharLen(s) ==
    CASE s \in {"jia", "yu", "meiyou"} -> 2
      [] s \in {"RAG", "rag"} -> 3
      [] s = "shi" -> 298
      [] OTHER -> 1

TextLen(t) == SeqSum([i \in 1..Len(t) |-> CharLen(t[i])])

\* str.lower() of one symbol
LowerSym(s) == IF s = "RAG" THEN "rag" ELSE s

\* str.lower() of a text (the vectorizer's preprocessor)
LowerText(t) == [i \in 1..Len(t) |-> LowerSym(t[i])]

RECURSIVE LStrip(_)
LStrip(t) == IF t # <<>> /\ Head(t) \in Whitespace THEN LStrip(Tail(t)) ELSE t

\* str.strip()
Strip(t) == Reverse(LStrip(Reverse(LStrip(t))))

(* ------------------------------------------------------------------ *)
(* chinese_tokenizer                                                   *)
(* ------------------------------------------------------------------ *)
\* the default stop words used when no stop-word file is found
stopwords == {"de", "meiyou"}

punctuation == {",", ".", "!", "?"}

\* jieba.cut of one symbol: the verse run is cut into one-character words
CutSym(s) == IF s = "shi" THEN <<"de", "de">> ELSE <<s>>

\* jieba.cut
Cut(t) == Flatten([i \in 1..Len(t) |-> CutSym(t[i])])

KeepWord(w) ==
    /\ w \notin Whitespace
    /\ CharLen(w) > 1
    /\ w \notin stopwords
    /\ w \notin punctuation

chinese_tokenizer(t) == SelectSeq(Cut(t), KeepWord)

(* ------------------------------------------------------------------ *)
(* split_text_into_chunks                                              *)
(* ------------------------------------------------------------------ *)
\* re.split(r'[。！？]', text): the pieces between terminators
RECURSIVE ReSplit(_, _)
ReSplit(t, piece) ==
    IF t = <<>> THEN <<piece>>
    ELSE IF Head(t) \in Terminators
         THEN <<piece>> \o ReSplit(Tail(t), <<>>)
         ELSE ReSplit(Tail(t), Append(piece, Head(t)))

NonEmpty(t) == t # <<>>

\* [s.strip() for s in sentences if s.strip()]
Sentences(text) ==
    LET pieces == ReSplit(text, <<>>)
    IN  SelectSeq([i \in 1..Len(pieces) |-> Strip(pieces[i])], NonEmpty)

\* a variant of Accumulate that loses the sentence that did not fit
RECURSIVE AccumulateDropping(_, _, _, _)
AccumulateDropping(sentences, chunks, current_chunk, chunk_size) ==
    IF sentences = <<>>
    THEN IF current_chunk # <<>> THEN Append(chunks, Strip(current_chunk))
         ELSE chunks
    ELSE LET sentence == Head(sentences)
         IN  IF TextLen(current_chunk) + TextLen(sentence) <= chunk_size
             THEN AccumulateDropping(Tail(sentences), chunks,
                                     current_chunk \o sentence \o <<".">>,
                                     chunk_size)
             ELSE AccumulateDropping(Tail(sentences),
                                     IF current_chunk # <<>>
                                     THEN Append(chunks, Strip(current_chunk))
                                     ELSE chunks,
                                     <<>>, chunk_size)

\* a variant of Accumulate that closes current_chunk without testing it
RECURSIVE AccumulateFlushingEmpty(_, _, _, _)
AccumulateFlushingEmpty(sentences, chunks, current_chunk, chunk_size) ==
    IF sentences = <<>>
    THEN IF current_chunk # <<>> THEN Append(chunks, Strip(current_chunk))
         ELSE chunks
    ELSE LET sentence == Head(sentences)
         IN  IF TextLen(current_chunk) + TextLen(sentence) <= chunk_size
             THEN AccumulateFlushingEmpty(Tail(sentences), chunks,
                                          current_chunk \o sentence \o <<".">>,
                                          chunk_size)
             ELSE AccumulateFlushingEmpty(Tail(sentences),
                                          Append(chunks, Strip(current_chunk)),
                                          sentence \o <<".">>, chunk_size)

\* the loop over the sentences and the final flush of current_chunk
RECURSIVE Accumulate(_, _, _, _)
Accumulate(sentences, chunks, current_chunk, chunk_size) ==
    IF sentences = <<>>
    THEN IF current_chunk # <<>> THEN Append(chunks, Strip(current_chunk))
         ELSE chunks
    ELSE LET sentence == Head(sentences)
         IN  IF TextLen(current_chunk) + TextLen(sentence) <= chunk_size
             THEN Accumulate(Tail(sentences), chunks,
                             current_chunk \o sentence \o <<".">>, chunk_size)
             ELSE Accumulate(Tail(sentences),
                             IF current_chunk # <<>>
                             THEN Append(chunks, Strip(current_chunk))
                             ELSE chunks,
                             sentence \o <<".">>, chunk_size)

\* a variant of split_text_into_chunks that takes overlap off the limit
SplitWithinOverlap(text, chunk_size, overlap) ==
    Accumulate(Sentences(text), <<>>, <<>>, chunk_size - overlap)

split_text_into_chunks(text, chunk_size, overlap) ==
    Accumulate(Sentences(text), <<>>, <<>>, chunk_size)

\* the defaults of split_text_into_chunks, used by preprocess_documents
DefaultChunkSize == 300
DefaultOverlap == 50

\* the chunk records of one document
DocChunks(doc) ==
    LET chunks == split_text_into_chunks(doc.content, DefaultChunkSize, DefaultOverlap)
    IN  [i \in 1..Len(chunks) |->
            [content |-> chunks[i], source |-> doc.filename,
             chunk_id |-> i - 1, full_path |-> doc.path]]

\* the loop of preprocess_documents over self.documents
ChunkAll(documents) == Flatten([d \in 1..Len(documents) |-> DocChunks(documents[d])])

(* ------------------------------------------------------------------ *)
(* TfidfVectorizer                                                     *)
(* ------------------------------------------------------------------ *)
\* A term is a tuple of one or two words.  Terms are ordered as their
\* strings are: by code point, a unigram before the bigrams it starts.
WordOrder == <<"RAG", "jia", "rag", "yu">>

WordRank(w) == CHOOSE i \in 1..Len(WordOrder) : WordOrder[i] = w

TermLess(a, b) ==
    \/ WordRank(a[1]) < WordRank(b[1])
    \/ /\ a[1] = b[1]
       /\ \/ Len(a) < Len(b)
          \/ Len(a) = 2 /\ Len(b) = 2 /\ WordRank(a[2]) < WordRank(b[2])

RECURSIVE SortTerms(_)
SortTerms(S) ==
    IF S = {} THEN <<>>
    ELSE LET m == CHOOSE x \in S : \A y \in S \ {x} : TermLess(x, y)
         IN  <<m>> \o SortTerms(S \ {m})

\* _word_ngrams: the unigrams, then the bigrams when ngram_range = (1, 2)
WordNgrams(tokens, ngram_max) ==
    [i \in 1..Len(tokens) |-> <<tokens[i]>>]
    \o (IF ngram_max >= 2 /\ Len(tokens) >= 2
        THEN [i \in 1..(Len(tokens) - 1) |-> <<tokens[i], tokens[i + 1]>>]
        ELSE <<>>)

\* build_analyzer: preprocess (lowercase), tokenize, n-grams
Analyze(vectorizer, text) ==
    WordNgrams(chinese_tokenizer(IF vectorizer.lowercase THEN LowerText(text) ELSE text),
               vectorizer.ngram_max)

\* 100 * ln(k), rounded, for k = 1..9
Ln100 == <<0, 69, 110, 139, 161, 179, 195, 208, 220>>

\* smooth idf: ln((1 + n) / (1 + df)) + 1, in 1/100
IdfOf(n, df) == 100 + Ln100[1 + n] - Ln100[1 + df]

\* L2 normalisation of a row, in 1/100; a zero row is left as it is
Normalize(row) ==
    LET norm == ISqrt(SeqSum([i \in 1..Len(row) |-> row[i] * row[i]]))
    IN  IF norm = 0 THEN row
        ELSE [i \in 1..Len(row) |-> (row[i] * 100) \div norm]

\* the tf-idf row of the analysed terms over a vocabulary with its idf
TfidfRow(terms, vocabulary, idf) ==
    Normalize([j \in 1..Len(vocabulary) |-> Count(terms, vocabulary[j]) * idf[j]])

\* the parameters given to TfidfVectorizer in the fit branch ...
FitParams == [lowercase |-> FALSE, ngram_max |-> 2]
\* ... and in the restore branch, where lowercase and ngram_range are defaults
RestoreParams == [lowercase |-> TRUE, ngram_max |-> 1]

max_features == 5000

\* max_features: the max_features most frequent terms over the corpus
RECURSIVE TopTerms(_, _, _)
TopTerms(S, tf, k) ==
    IF S = {} \/ k = 0 THEN {}
    ELSE LET m == CHOOSE x \in S : \A y \in S \ {x} :
                      tf[x] > tf[y] \/ (tf[x] = tf[y] /\ TermLess(x, y))
         IN  {m} \cup TopTerms(S \ {m}, tf, k - 1)

\* fit_transform(texts) with min_df = 1, max_df = 0.95: an error, or the
\* vocabulary (terms by column), the idf weights and the document vectors
FitTransform(texts) ==
    LET n == Len(texts)
        analysed == [i \in 1..n |-> Analyze(FitParams, texts[i])]
        all == UNION {Range(analysed[i]) : i \in 1..n}
        df == [t \in all |-> Cardinality({i \in 1..n : t \in Range(analysed[i])})]
        tf == [t \in all |-> SeqSum([i \in 1..n |-> Count(analysed[i], t)])]
        kept == {t \in all : df[t] >= 1 /\ 100 * df[t] <= 95 * n}
        limited == IF Cardinality(kept) > max_features
                   THEN TopTerms(kept, tf, max_features) ELSE kept
        vocabulary == SortTerms(limited)
        idf == [j \in 1..Len(vocabulary) |-> IdfOf(n, df[vocabulary[j]])]
    IN  IF all = {} THEN [ok |-> FALSE, error |-> "empty vocabulary"]
        ELSE IF 95 * n < 100 THEN [ok |-> FALSE, error |-> "max_df < min_df"]
        ELSE IF limited = {} THEN [ok |-> FALSE, error |-> "no terms remain"]
        ELSE [ok |-> TRUE, vocabulary |-> vocabulary, idf |-> idf,
              vectors |-> [i \in 1..n |-> TfidfRow(analysed[i], vocabulary, idf)]]

\* vectorizer.transform([query])
Transform(vectorizer, query) ==
    TfidfRow(Analyze(vectorizer, query), vectorizer.vocabulary, vectorizer.idf)

\* cosine_similarity(query_vector, doc_vectors).flatten(), in 1/10000
CosineSimilarity(query_vector, doc_vectors) ==
    LET q == Normalize(query_vector)
    IN  [i \in 1..Len(doc_vectors) |->
            LET d == Normalize(doc_vectors[i])
            IN  SeqSum([j \in 1..Len(q) |-> q[j] * d[j]])]

(* ------------------------------------------------------------------ *)
(* search_relevant_chunks                                              *)
(* ------------------------------------------------------------------ *)
\* a variant of WhereAbove that also keeps a similarity equal to the threshold
RECURSIVE WhereAtLeast(_, _, _)
WhereAtLeast(similarities, similarity_threshold, i) ==
    IF i > Len(similarities) THEN <<>>
    ELSE (IF similarities[i] >= similarity_threshold THEN <<i>> ELSE <<>>)
         \o WhereAtLeast(similarities, similarity_threshold, i + 1)

\* np.where(similarities > similarity_threshold)[0]: ascending positions
RECURSIVE WhereAbove(_, _, _)
WhereAbove(similarities, similarity_threshold, i) ==
    IF i > Len(similarities) THEN <<>>
    ELSE (IF similarities[i] > similarity_threshold THEN <<i>> ELSE <<>>)
         \o WhereAbove(similarities, similarity_threshold, i + 1)

\* np.argsort(values) with the default kind, which is not stable: any
\* permutation that puts the values in ascending order
ArgsortOutcomes(values) ==
    LET m == Len(values)
    IN  {p \in [1..m -> 1..m] :
            /\ \A i, j \in 1..m : i # j => p[i] # p[j]
            /\ \A i \in 1..(m - 1) : values[p[i]] <= values[p[i + 1]]}

\* s[:k] of Python
SlicePrefix(s, k) ==
    IF k >= 0 THEN SubSeq(s, 1, Min(k, Len(s)))
    ELSE SubSeq(s, 1, Max(0, Len(s) + k))

\* a variant of TopIndices that forgets the [::-1]
TopIndicesAscending(similarities, top_k, similarity_threshold, order) ==
    LET valid_indices == WhereAbove(similarities, similarity_threshold, 1)
        sorted_indices == [i \in 1..Len(order) |-> valid_indices[order[i]]]
    IN  SlicePrefix(sorted_indices, top_k)

\* valid_indices[np.argsort(similarities[valid_indices])[::-1]][:top_k]
TopIndices(similarities, top_k, similarity_threshold, order) ==
    LET valid_indices == WhereAbove(similarities, similarity_threshold, 1)
        sorted_indices == [i \in 1..Len(order) |-> valid_indices[Reverse(order)[i]]]
    IN  SlicePrefix(sorted_indices, top_k)

\* the result records: a copy of the chunk with its similarity
ResultsOf(chunks, similarities, top_indices) ==
    [i \in 1..Len(top_indices) |->
        [content |-> chunks[top_indices[i]].content,
         source |-> chunks[top_indices[i]].source,
         chunk_id |-> chunks[top_indices[i]].chunk_id,
         full_path |-> chunks[top_indices[i]].full_path,
         similarity |-> similarities[top_indices[i]]]]

\* every outcome of search_relevant_chunks on an engine (vz, dv, chunks):
\* raised is "none" when it returns; indices are the positions it took
SearchOutcomes(vz, dv, chunks, query, top_k, similarity_threshold) ==
    IF vz.kind = "None" \/ dv.is_none
    THEN {[raised |-> "ValueError", results |-> <<>>, indices |-> <<>>]}
    ELSE IF vz.kind # "fitted"
    THEN {[raised |-> "NotFittedError", results |-> <<>>, indices |-> <<>>]}
    ELSE LET similarities == CosineSimilarity(Transform(vz, query), dv.rows)
             valid_indices == WhereAbove(similarities, similarity_threshold, 1)
             values == [i \in 1..Len(valid_indices) |-> similarities[valid_indices[i]]]
         IN  {LET top_indices == TopIndices(similarities, top_k,
                                            similarity_threshold, order)
              IN  IF \E i \in 1..Len(top_indices) : top_indices[i] > Len(chunks)
                  THEN [raised |-> "IndexError", results |-> <<>>,
                        indices |-> top_indices]
                  ELSE [raised |-> "none",
                        results |-> ResultsOf(chunks, similarities, top_indices),
                        indices |-> top_indices]
              : order \in ArgsortOutcomes(values)}

(* ------------------------------------------------------------------ *)
(* Inputs: corpus files, questions, thresholds                         *)
(* ------------------------------------------------------------------ *)
File(name, content, readable) ==
    [filename |-> name, content |-> content, readable |-> readable]

FileA == File("a.txt", <<"jia", "yu", ".", " ">>, TRUE)
FileB == File("b.txt", <<"jia", "yu", "?">>, TRUE)
FileC == File("c.txt", <<"RAG", "jia", ",", "rag", "!">>, TRUE)
FileD == File("d.txt", <<"shi", "jia", ".", "yu", "rag", ".">>, TRUE)
FileE == File("e.txt", <<"de", "meiyou", ".">>, TRUE)
FileU == File("u.txt", <<"yu", ".">>, FALSE)
FileW == File("w.txt", <<" ">>, TRUE)
FileP == File("p.txt", <<".", "!">>, TRUE)

\* the states of the docs directory, each in glob order
Corpora ==
    { <<>>,
      <<FileA, FileB, FileC>>,
      <<FileU, FileD, FileW>>,
      <<FileA>>,
      <<FileE>>,
      <<FileP>>,
      <<FileU, FileW>> }

Questions ==
    { <<"jia">>, <<"RAG", "jia">>, <<"yu", "rag">>, <<"rag", "de", "yu", "rag">> }

\* similarity_threshold in 1/10000: 0.0, the default 0.01, and 0.5
Thresholds == {0, 100, 5000}

TopKs == 1..MaxTopK

(* ------------------------------------------------------------------ *)
(* State                                                               *)
(* ------------------------------------------------------------------ *)
VARIABLES
    docs_dir,       \* the *.txt files of the docs directory, in glob order
    chunks_cache,   \* the artifact cache/doc_chunks.pkl
    vectors_cache,  \* the artifact cache/doc_vectors.pkl
    documents,      \* self.documents
    doc_chunks,     \* self.doc_chunks
    vectorizer,     \* self.vectorizer
    doc_vectors,    \* self.doc_vectors
    phase,          \* where initialize is: Uninitialized .. Ready
    failed,         \* initialize has raised
    response,       \* the outcome of the last ask
    call            \* a direct call of split_text_into_chunks and its result

vars == <<docs_dir, chunks_cache, vectors_cache, documents, doc_chunks,
          vectorizer, doc_vectors, phase, failed, response, call>>

disk == <<docs_dir, chunks_cache, vectors_cache>>
engine == <<documents, doc_chunks, vectorizer, doc_vectors>>

\* an artifact: absent, present and readable (ok), or present and unreadable
Absent == [exists |-> FALSE, ok |-> FALSE, data |-> <<>>]
Corrupt == [exists |-> TRUE, ok |-> FALSE, data |-> <<>>]
Stored(data) == [exists |-> TRUE, ok |-> TRUE, data |-> data]

NoVectorizer == [kind |-> "None", lowercase |-> FALSE, ngram_max |-> 0,
                 vocabulary |-> <<>>, idf |-> <<>>]
NoVectors == [is_none |-> TRUE, rows |-> <<>>]

\* TfidfVectorizer(...) before fit: the parameters only
NewVectorizer(params) ==
    [kind |-> "unfitted", lowercase |-> params.lowercase,
     ngram_max |-> params.ngram_max, vocabulary |-> <<>>, idf |-> <<>>]

\* what client.chat.completions.create does: it returns a text, or raises
\* an exception of some type whose str() is a message or is empty
NoServiceCall == [called |-> FALSE, raises |-> FALSE, type |-> "", message |-> ""]
Answers(type, message) ==
    [called |-> TRUE, raises |-> FALSE, type |-> type, message |-> message]
Raises(type, message) ==
    [called |-> TRUE, raises |-> TRUE, type |-> type, message |-> message]

NoResponse ==
    [kind |-> "none", question |-> <<>>, top_k |-> 0, similarity_threshold |-> 0,
     raised |-> "none", relevant_chunks |-> <<>>, indices |-> <<>>,
     answer |-> <<>>, sources |-> <<>>, generate_calls |-> 0,
     service |-> NoServiceCall]

\* no direct call of the chunker is in progress
NoCall == [text |-> <<>>, chunk_size |-> 0, overlap |-> 0,
           returned |-> FALSE, chunks |-> <<>>]

\* __init__
Init ==
    /\ docs_dir \in Corpora
    /\ chunks_cache = Absent
    /\ vectors_cache = Absent
    /\ documents = <<>>
    /\ doc_chunks = <<>>
    /\ vectorizer = NoVectorizer
    /\ doc_vectors = NoVectors
    /\ phase = "Uninitialized"
    /\ failed = FALSE
    /\ response = NoResponse
    /\ call = NoCall

(* ------------------------------------------------------------------ *)
(* initialize: load_documents, preprocess_documents, build_vector_index*)
(* ------------------------------------------------------------------ *)
\* a variant of LoadedFrom in which the first file that cannot be read ends
\* the loop
LoadedFromUntilUnreadable(files) ==
    LET unreadable == {i \in 1..Len(files) : ~files[i].readable}
        last == IF unreadable = {} THEN Len(files)
                ELSE (CHOOSE i \in unreadable : \A j \in unreadable : i <= j) - 1
        Usable(f) == Strip(f.content) # <<>>
        usable == SelectSeq(SubSeq(files, 1, last), Usable)
    IN  [i \in 1..Len(usable) |->
            [filename |-> usable[i].filename,
             content |-> Strip(usable[i].content),
             path |-> <<"docs", usable[i].filename>>]]

\* the Documents load_documents appends for the files of a directory:
\* a file that cannot be read, or is empty once stripped, adds none
LoadedFrom(files) ==
    LET Usable(f) == f.readable /\ Strip(f.content) # <<>>
        usable == SelectSeq(files, Usable)
    IN  [i \in 1..Len(usable) |->
            [filename |-> usable[i].filename,
             content |-> Strip(usable[i].content),
             path |-> <<"docs", usable[i].filename>>]]

\* initialize is entered
Initialize ==
    /\ phase = "Uninitialized" /\ ~failed
    /\ phase' = "Loading"
    /\ UNCHANGED <<disk, engine, failed, response, call>>

\* a variant of LoadDocuments without the check that documents were found
LoadDocumentsUnchecked ==
    /\ phase = "Loading" /\ ~failed
    /\ documents' = documents \o LoadedFrom(docs_dir)
    /\ failed' = FALSE /\ phase' = "Chunking"
    /\ UNCHANGED <<disk, doc_chunks, vectorizer, doc_vectors, response, call>>

\* load_documents, then the check of initialize that documents were found
LoadDocuments ==
    /\ phase = "Loading" /\ ~failed
    /\ documents' = documents \o LoadedFrom(docs_dir)
    /\ IF documents' = <<>>
       THEN failed' = TRUE /\ phase' = phase
       ELSE failed' = FALSE /\ phase' = "Chunking"
    /\ UNCHANGED <<disk, doc_chunks, vectorizer, doc_vectors, response, call>>

\* a variant of PreprocessFromCache that chunks the loaded documents again
PreprocessFromCacheRechunks ==
    /\ phase = "Chunking" /\ ~failed
    /\ chunks_cache.exists /\ chunks_cache.ok
    /\ doc_chunks' = ChunkAll(documents)
    /\ phase' = "Indexing"
    /\ UNCHANGED <<disk, documents, vectorizer, doc_vectors, failed, response, call>>

\* preprocess_documents: the artifact exists and is loaded
PreprocessFromCache ==
    /\ phase = "Chunking" /\ ~failed
    /\ chunks_cache.exists /\ chunks_cache.ok
    /\ doc_chunks' = chunks_cache.data
    /\ phase' = "Indexing"
    /\ UNCHANGED <<disk, documents, vectorizer, doc_vectors, failed, response, call>>

\* preprocess_documents: the artifact exists and pickle.load raises
PreprocessCacheUnreadable ==
    /\ phase = "Chunking" /\ ~failed
    /\ chunks_cache.exists /\ ~chunks_cache.ok
    /\ failed' = TRUE
    /\ UNCHANGED <<disk, engine, phase, response, call>>

\* preprocess_documents: no artifact; the chunks are computed and saved
PreprocessBuild ==
    /\ phase = "Chunking" /\ ~failed
    /\ ~chunks_cache.exists
    /\ doc_chunks' = ChunkAll(documents)
    /\ chunks_cache' = Stored(doc_chunks')
    /\ phase' = "Indexing"
    /\ UNCHANGED <<docs_dir, vectors_cache, documents, vectorizer, doc_vectors,
                   failed, response, call>>

\* preprocess_documents: no artifact; writing it raises (open fails and
\* leaves no file, or pickle.dump fails and leaves an unreadable one)
PreprocessSaveFails ==
    /\ phase = "Chunking" /\ ~failed
    /\ ~chunks_cache.exists
    /\ doc_chunks' = ChunkAll(documents)
    /\ chunks_cache' \in {Absent, Corrupt}
    /\ failed' = TRUE
    /\ UNCHANGED <<docs_dir, vectors_cache, documents, vectorizer, doc_vectors,
                   phase, response, call>>

\* the vectorizer the restore branch builds from the persisted bundle
RestoredVectorizer(cache_data) ==
    [kind |-> "fitted", lowercase |-> RestoreParams.lowercase,
     ngram_max |-> RestoreParams.ngram_max,
     vocabulary |-> cache_data.vocabulary, idf |-> cache_data.idf]

\* the vectorizer after fit_transform in the fit branch
FittedVectorizer(fit) ==
    [kind |-> "fitted", lowercase |-> FitParams.lowercase,
     ngram_max |-> FitParams.ngram_max,
     vocabulary |-> fit.vocabulary, idf |-> fit.idf]

\* the bundle the fit branch pickles
CacheData(vz, dv) ==
    [vocabulary |-> vz.vocabulary, vectors |-> dv.rows, idf |-> vz.idf]

\* texts = [chunk['content'] for chunk in self.doc_chunks]
Texts(chunks) == [i \in 1..Len(chunks) |-> chunks[i].content]

\* build_vector_index: the artifact exists and is loaded
BuildFromCache ==
    /\ phase = "Indexing" /\ ~failed
    /\ vectors_cache.exists /\ vectors_cache.ok
    /\ vectorizer' = RestoredVectorizer(vectors_cache.data)
    /\ doc_vectors' = [is_none |-> FALSE, rows |-> vectors_cache.data.vectors]
    /\ phase' = "Ready"
    /\ UNCHANGED <<disk, documents, doc_chunks, failed, response, call>>

\* build_vector_index: the artifact exists and pickle.load raises
BuildCacheUnreadable ==
    /\ phase = "Indexing" /\ ~failed
    /\ vectors_cache.exists /\ ~vectors_cache.ok
    /\ failed' = TRUE
    /\ UNCHANGED <<disk, engine, phase, response, call>>

\* build_vector_index: no artifact and fit_transform raises
BuildFitFails ==
    /\ phase = "Indexing" /\ ~failed
    /\ ~vectors_cache.exists
    /\ ~FitTransform(Texts(doc_chunks)).ok
    /\ vectorizer' = NewVectorizer(FitParams)
    /\ failed' = TRUE
    /\ UNCHANGED <<disk, documents, doc_chunks, doc_vectors, phase, response, call>>

\* a variant of BuildFit that does not write the artifact
BuildFitUnsaved ==
    /\ phase = "Indexing" /\ ~failed
    /\ ~vectors_cache.exists
    /\ LET fit == FitTransform(Texts(doc_chunks))
       IN  /\ fit.ok
           /\ vectorizer' = FittedVectorizer(fit)
           /\ doc_vectors' = [is_none |-> FALSE, rows |-> fit.vectors]
    /\ phase' = "Ready"
    /\ UNCHANGED <<disk, documents, doc_chunks, failed, response, call>>

\* build_vector_index: no artifact; the index is fitted and saved
BuildFit ==
    /\ phase = "Indexing" /\ ~failed
    /\ ~vectors_cache.exists
    /\ LET fit == FitTransform(Texts(doc_chunks))
       IN  /\ fit.ok
           /\ vectorizer' = FittedVectorizer(fit)
           /\ doc_vectors' = [is_none |-> FALSE, rows |-> fit.vectors]
    /\ vectors_cache' = Stored(CacheData(vectorizer', doc_vectors'))
    /\ phase' = "Ready"
    /\ UNCHANGED <<docs_dir, chunks_cache, documents, doc_chunks, failed, response, call>>

\* build_vector_index: no artifact; the index is fitted and writing it raises
BuildSaveFails ==
    /\ phase = "Indexing" /\ ~failed
    /\ ~vectors_cache.exists
    /\ LET fit == FitTransform(Texts(doc_chunks))
       IN  /\ fit.ok
           /\ vectorizer' = FittedVectorizer(fit)
           /\ doc_vectors' = [is_none |-> FALSE, rows |-> fit.vectors]
    /\ vectors_cache' \in {Absent, Corrupt}
    /\ failed' = TRUE
    /\ UNCHANGED <<docs_dir, chunks_cache, documents, doc_chunks, phase, response, call>>

(* ------------------------------------------------------------------ *)
(* ask, generate_answer                                                *)
(* ------------------------------------------------------------------ *)
\* the first n characters of a text: the whole symbols that fit, and the
\* number of characters taken from the symbol that is cut
RECURSIVE CharPrefix(_, _)
CharPrefix(t, n) ==
    IF t = <<>> \/ n = 0 THEN [whole |-> <<>>, cut_chars |-> 0]
    ELSE IF CharLen(Head(t)) > n THEN [whole |-> <<>>, cut_chars |-> n]
    ELSE LET rest == CharPrefix(Tail(t), n - CharLen(Head(t)))
         IN  [whole |-> <<Head(t)>> \o rest.whole, cut_chars |-> rest.cut_chars]

\* chunk['content'][:100] + '...' if len(chunk['content']) > 100 else chunk['content']
ContentPreview(content) ==
    IF TextLen(content) > 100
    THEN [text |-> CharPrefix(content, 100), ellipsis |-> TRUE]
    ELSE [text |-> [whole |-> content, cut_chars |-> 0], ellipsis |-> FALSE]

SourcesOf(relevant_chunks) ==
    [i \in 1..Len(relevant_chunks) |->
        [source |-> relevant_chunks[i].source,
         similarity |-> relevant_chunks[i].similarity,
         content_preview |-> ContentPreview(relevant_chunks[i].content)]]

\* the outcomes of client.chat.completions.create
ServiceOutcomes ==
    { Answers("", "generated"),
      Raises("APIConnectionError", "Connection error."),
      Raises("TimeoutError", "") }

\* a variant of GenerateAnswer whose error string does not say what failed
GenerateAnswerGeneric(service) ==
    IF ~service.raises THEN <<service.message>>
    ELSE <<"error generating answer">>

\* generate_answer: the text of the service, or the error string built in
\* the except branch when the call raises; a string is the sequence of the
\* parts it is formatted from
GenerateAnswer(service) ==
    IF ~service.raises THEN <<service.message>>
    ELSE LET error_type == service.type
             error_details == IF service.message # "" THEN service.message
                              ELSE "unknown error"
         IN  <<"error generating answer: ", error_type, " - ", error_details>>

NotFoundAnswer == <<"not found">>

\* a variant of AskOutcome that calls the service whatever the search found
AskOutcomeAlwaysGenerates(question, top_k, similarity_threshold, found, service) ==
    IF found.raised # "none"
    THEN [kind |-> "raised", question |-> question, top_k |-> top_k,
          similarity_threshold |-> similarity_threshold,
          raised |-> found.raised, relevant_chunks |-> <<>>,
          indices |-> found.indices, answer |-> <<>>, sources |-> <<>>,
          generate_calls |-> 0, service |-> NoServiceCall]
    ELSE [kind |-> "returned", question |-> question, top_k |-> top_k,
          similarity_threshold |-> similarity_threshold,
          raised |-> "none", relevant_chunks |-> found.results,
          indices |-> found.indices, answer |-> GenerateAnswer(service),
          sources |-> SourcesOf(found.results), generate_calls |-> 1,
          service |-> service]

\* the value ask returns, or the exception it lets through
AskOutcome(question, top_k, similarity_threshold, found, service) ==
    IF found.raised # "none"
    THEN [kind |-> "raised", question |-> question, top_k |-> top_k,
          similarity_threshold |-> similarity_threshold,
          raised |-> found.raised, relevant_chunks |-> <<>>,
          indices |-> found.indices, answer |-> <<>>, sources |-> <<>>,
          generate_calls |-> 0, service |-> NoServiceCall]
    ELSE IF found.results = <<>>
    THEN [kind |-> "returned", question |-> question, top_k |-> top_k,
          similarity_threshold |-> similarity_threshold,
          raised |-> "none", relevant_chunks |-> <<>>, indices |-> <<>>,
          answer |-> NotFoundAnswer, sources |-> <<>>, generate_calls |-> 0,
          service |-> NoServiceCall]
    ELSE [kind |-> "returned", question |-> question, top_k |-> top_k,
          similarity_threshold |-> similarity_threshold,
          raised |-> "none", relevant_chunks |-> found.results,
          indices |-> found.indices, answer |-> GenerateAnswer(service),
          sources |-> SourcesOf(found.results), generate_calls |-> 1,
          service |-> service]

\* a variant of ChunksAfterSearch in which the similarity is set on the
\* stored chunk records
ChunksAfterSearchInPlace(chunks, found) ==
    [i \in 1..Len(chunks) |->
        IF \E k \in 1..Len(found.results) : found.indices[k] = i
        THEN found.results[CHOOSE k \in 1..Len(found.results) : found.indices[k] = i]
        ELSE chunks[i]]

\* self.doc_chunks after search_relevant_chunks returned: each result is
\* built on self.doc_chunks[idx].copy(), so the stored records are as before
ChunksAfterSearch(chunks, found) == chunks

\* ask is called while initialize is not running
CanAsk == phase \in {"Uninitialized", "Ready"} \/ failed

\* ask whose search raises or finds nothing
AskWithoutAnswer(question, top_k, similarity_threshold) ==
    /\ CanAsk
    /\ \E found \in SearchOutcomes(vectorizer, doc_vectors, doc_chunks,
                                   question, top_k, similarity_threshold) :
          /\ found.raised # "none" \/ found.results = <<>>
          /\ response' = AskOutcome(question, top_k, similarity_threshold,
                                    found, NoServiceCall)
    /\ UNCHANGED <<disk, engine, phase, failed, call>>

\* ask whose search finds chunks: the generation service is called, and
\* answers or fails
AskWithAnswer(question, top_k, similarity_threshold) ==
    /\ CanAsk
    /\ \E found \in SearchOutcomes(vectorizer, doc_vectors, doc_chunks,
                                   question, top_k, similarity_threshold) :
          /\ found.raised = "none" /\ found.results # <<>>
          /\ \E service \in ServiceOutcomes :
                response' = AskOutcome(question, top_k, similarity_threshold,
                                       found, service)
          /\ doc_chunks' = ChunksAfterSearch(doc_chunks, found)
    /\ UNCHANGED <<disk, documents, vectorizer, doc_vectors, phase, failed, call>>

Ask ==
    \E question \in Questions, top_k \in TopKs, similarity_threshold \in Thresholds :
        \/ AskWithoutAnswer(question, top_k, similarity_threshold)
        \/ AskWithAnswer(question, top_k, similarity_threshold)

(* ------------------------------------------------------------------ *)
(* The next run, and what happens to the disk between runs             *)
(* ------------------------------------------------------------------ *)
\* the process ends and a new one constructs a fresh engine
NewProcess ==
    /\ phase = "Ready" \/ failed
    /\ documents' = <<>>
    /\ doc_chunks' = <<>>
    /\ vectorizer' = NoVectorizer
    /\ doc_vectors' = NoVectors
    /\ phase' = "Uninitialized"
    /\ failed' = FALSE
    /\ response' = NoResponse
    /\ UNCHANGED <<disk, call>>

BetweenRuns == phase = "Uninitialized" /\ ~failed /\ response = NoResponse

DeleteChunksCache ==
    /\ BetweenRuns
    /\ chunks_cache.exists
    /\ chunks_cache' = Absent
    /\ UNCHANGED <<docs_dir, vectors_cache, engine, phase, failed, response, call>>

DeleteVectorsCache ==
    /\ BetweenRuns
    /\ vectors_cache.exists
    /\ vectors_cache' = Absent
    /\ UNCHANGED <<docs_dir, chunks_cache, engine, phase, failed, response, call>>

ChangeCorpus ==
    /\ BetweenRuns
    /\ \E corpus \in Corpora \ {docs_dir} : docs_dir' = corpus
    /\ UNCHANGED <<chunks_cache, vectors_cache, engine, phase, failed, response, call>>

Next ==
    \/ Initialize
    \/ LoadDocuments
    \/ PreprocessFromCache
    \/ PreprocessCacheUnreadable
    \/ PreprocessBuild
    \/ PreprocessSaveFails
    \/ BuildFromCache
    \/ BuildCacheUnreadable
    \/ BuildFitFails
    \/ BuildFit
    \/ BuildSaveFails
    \/ Ask
    \/ NewProcess
    \/ DeleteChunksCache
    \/ DeleteVectorsCache
    \/ ChangeCorpus

Spec == Init /\ [][Next]_vars

(* ------------------------------------------------------------------ *)
(* Properties of search_relevant_chunks                                *)
(* ------------------------------------------------------------------ *)
\* ask returned, so its search_relevant_chunks returned a list
SearchReturned == response.kind = "returned"

\* the similarities the last search computed, one per row of doc_vectors
LastSimilarities ==
    CosineSimilarity(Transform(vectorizer, response.question), doc_vectors.rows)

\* the rows whose similarity is above the threshold of the last search
LastAbove ==
    {i \in 1..Len(LastSimilarities) :
        LastSimilarities[i] > response.similarity_threshold}

\* C1: every result of search_relevant_chunks has a similarity strictly
\* above similarity_threshold, there are at most top_k results, and the
\* similarities do not increase from the first result to the last.
C1_ThresholdTopKSorted ==
    SearchReturned =>
        LET results == response.relevant_chunks
        IN  /\ \A i \in 1..Len(results) :
                  results[i].similarity > response.similarity_threshold
            /\ Len(results) <= response.top_k
            /\ \A i \in 1..(Len(results) - 1) :
                  results[i].similarity >= results[i + 1].similarity

\* a search returned two results of different similarity, both above a
\* positive threshold, and top_k left out a third chunk above the threshold
C1_Witness ==
    /\ SearchReturned
    /\ Len(response.relevant_chunks) = 2
    /\ response.relevant_chunks[1].similarity > response.relevant_chunks[2].similarity
    /\ response.similarity_threshold > 0
    /\ Cardinality(LastAbove) > 2

\* C2: the result holds the best candidates: with n chunks above the
\* threshold it has exactly min(top_k, n) entries, each taken from a
\* different chunk with that chunk's similarity, and no chunk left out has
\* a similarity greater than that of a returned chunk.
C2_BestCandidates ==
    SearchReturned =>
        LET results == response.relevant_chunks
            indices == response.indices
        IN  /\ Len(results) = Min(response.top_k, Cardinality(LastAbove))
            /\ Len(indices) = Len(results)
            /\ \A i, j \in 1..Len(indices) : i # j => indices[i] # indices[j]
            /\ \A i \in 1..Len(indices) :
                  /\ indices[i] \in LastAbove
                  /\ results[i].similarity = LastSimilarities[indices[i]]
            /\ \A i \in 1..Len(LastSimilarities) :
                  i \notin Range(indices) =>
                      \A j \in Range(indices) :
                          LastSimilarities[i] <= LastSimilarities[j]

\* top_k = 1 with three chunks above the threshold: one result is returned
C2_Witness ==
    /\ SearchReturned
    /\ response.top_k = 1
    /\ Cardinality(LastAbove) = 3
    /\ Len(response.relevant_chunks) = 1
    /\ \E i \in LastAbove :
          LastSimilarities[i] < response.relevant_chunks[1].similarity

\* C3: when two chunks above the threshold have equal similarity, the one
\* earlier in the chunk sequence comes first in the result, and it is the
\* one that survives the truncation to top_k.
C3_TiesInChunkOrder ==
    SearchReturned =>
        LET indices == response.indices
        IN  /\ \A i, j \in 1..Len(indices) :
                  (i < j /\ LastSimilarities[indices[i]] = LastSimilarities[indices[j]])
                      => indices[i] < indices[j]
            /\ \A i \in LastAbove \ Range(indices) :
                  \A j \in Range(indices) :
                      LastSimilarities[i] = LastSimilarities[j] => j < i

\* two chunks tie above the threshold and the search returned one of them
C3_Witness ==
    /\ SearchReturned
    /\ response.top_k = 1
    /\ Len(response.indices) = 1
    /\ \E i \in LastAbove \ Range(response.indices) :
          LastSimilarities[i] = LastSimilarities[response.indices[1]]

(* ------------------------------------------------------------------ *)
(* Properties of the persisted index and of initialize                 *)
(* ------------------------------------------------------------------ *)
\* C4: for every query text, the vectorizer an engine holds once Ready
\* (fitted in the run that wrote the vector-index artifact, restored from
\* it in every later run) produces the query vector that the fitted
\* vectorizer of that artifact produces.
C4_RoundTrip ==
    (phase = "Ready" /\ vectors_cache.ok) =>
        \A query \in Questions :
            Transform(vectorizer, query)
                = Transform(FittedVectorizer(vectors_cache.data), query)

\* the tf-idf row the fit branch gives a chunk under the engine's vocabulary
VectorOfChunk(chunk) ==
    TfidfRow(Analyze(FitParams, chunk.content), vectorizer.vocabulary, vectorizer.idf)

\* C5: whenever an engine has completed initialize, doc_vectors has as many
\* rows as doc_chunks has entries, row i is the vector of chunk i, and
\* search does not index doc_chunks out of range.
C5_RowsMatchChunks ==
    /\ phase = "Ready" =>
          /\ Len(doc_vectors.rows) = Len(doc_chunks)
          /\ \A i \in 1..Len(doc_chunks) :
                doc_vectors.rows[i] = VectorOfChunk(doc_chunks[i])
    /\ response.raised # "IndexError"

\* C6: a stage that finds its artifact leaves the artifact as it is and
\* computes nothing: preprocess_documents sets doc_chunks to the persisted
\* chunks, build_vector_index takes vocabulary, idf and document vectors
\* from the persisted bundle (and an artifact that cannot be read makes the
\* stage raise, leaving the engine's chunks and index as they were); a
\* present artifact changes only by being deleted.
C6_CacheShortCircuit ==
    [][ /\ (phase = "Chunking" /\ ~failed /\ chunks_cache.exists) =>
              /\ chunks_cache' = chunks_cache
              /\ IF chunks_cache.ok
                 THEN doc_chunks' = chunks_cache.data /\ phase' = "Indexing"
                 ELSE doc_chunks' = doc_chunks /\ failed'
        /\ (phase = "Indexing" /\ ~failed /\ vectors_cache.exists) =>
              /\ vectors_cache' = vectors_cache
              /\ IF vectors_cache.ok
                 THEN /\ vectorizer'.kind = "fitted"
                      /\ vectorizer'.vocabulary = vectors_cache.data.vocabulary
                      /\ vectorizer'.idf = vectors_cache.data.idf
                      /\ doc_vectors' = [is_none |-> FALSE,
                                         rows |-> vectors_cache.data.vectors]
                      /\ phase' = "Ready"
                 ELSE vectorizer' = vectorizer /\ doc_vectors' = doc_vectors /\ failed'
        /\ (chunks_cache.exists /\ chunks_cache' # chunks_cache) =>
              chunks_cache' = Absent
        /\ (vectors_cache.exists /\ vectors_cache' # vectors_cache) =>
              vectors_cache' = Absent
      ]_vars

\* an engine is Ready on persisted chunks and a persisted index although
\* the corpus it loaded would now give other chunks
C6_Witness ==
    /\ phase = "Ready"
    /\ doc_chunks = chunks_cache.data
    /\ doc_chunks # ChunkAll(documents)
    /\ vectorizer.lowercase
    /\ vectorizer.vocabulary = vectors_cache.data.vocabulary
    /\ doc_vectors.rows = vectors_cache.data.vectors

\* C7: a stage that finds no artifact computes its value from the current
\* input (documents, respectively doc_chunks) and, unless it raises,
\* persists it; when initialize completes, both artifacts exist and hold
\* the chunks and the index the engine has in memory.
C7_RebuildOnAbsence ==
    [][ /\ (phase = "Chunking" /\ ~failed /\ ~chunks_cache.exists) =>
              /\ doc_chunks' = ChunkAll(documents)
              /\ ~failed' => (chunks_cache' = Stored(doc_chunks') /\ phase' = "Indexing")
        /\ (phase = "Indexing" /\ ~failed /\ ~vectors_cache.exists /\ ~failed') =>
              LET fit == FitTransform(Texts(doc_chunks))
              IN  /\ fit.ok
                  /\ vectorizer' = FittedVectorizer(fit)
                  /\ doc_vectors' = [is_none |-> FALSE, rows |-> fit.vectors]
                  /\ vectors_cache' = Stored(CacheData(vectorizer', doc_vectors'))
                  /\ phase' = "Ready"
        /\ (phase # "Ready" /\ phase' = "Ready") =>
              /\ chunks_cache' = Stored(doc_chunks')
              /\ vectors_cache' = Stored(CacheData(vectorizer', doc_vectors'))
      ]_vars

\* an engine is Ready on an index it fitted in this run, both artifacts
\* holding what it has in memory
C7_Witness ==
    /\ phase = "Ready"
    /\ ~vectorizer.lowercase
    /\ doc_chunks = ChunkAll(documents)
    /\ chunks_cache = Stored(doc_chunks)
    /\ vectors_cache = Stored(CacheData(vectorizer, doc_vectors))
    /\ Len(doc_vectors.rows) = 3

\* the order of the orchestrator's states
PhaseOrder ==
    { <<"Uninitialized", "Loading">>, <<"Loading", "Chunking">>,
      <<"Chunking", "Indexing">>, <<"Indexing", "Ready">> }

\* C8: an engine moves through Uninitialized, Loading, Chunking, Indexing,
\* Ready in that order only, and ask called before Ready raises: it returns
\* no response and does not call the generation service.
C8_OrderAndAskOnlyWhenReady ==
    [][ /\ (phase' # phase /\ phase' # "Uninitialized") =>
              <<phase, phase'>> \in PhaseOrder
        /\ (response' # response /\ response'.kind # "none" /\ phase # "Ready") =>
              (response'.kind = "raised" /\ response'.generate_calls = 0)
      ]_vars

\* C9: after initialize has raised, ask on that engine does not return an
\* answer.
C9_NoPartialReady == failed => response.kind # "returned"

\* C10: in Ready, an ask whose search finds nothing returns the not-found
\* answer with no sources and does not call the generation service; an ask
\* whose search finds chunks calls it exactly once.
C10_GenerateOnlyWhenFound ==
    (phase = "Ready" /\ response.kind = "returned") =>
        /\ (response.relevant_chunks = <<>>) = (LastAbove = {})
        /\ IF response.relevant_chunks = <<>>
           THEN /\ response.answer = NotFoundAnswer
                /\ response.sources = <<>>
                /\ response.generate_calls = 0
           ELSE response.generate_calls = 1

\* in Ready, a question none of whose terms is in the vocabulary was asked
\* and got the not-found answer
C10_Witness ==
    /\ phase = "Ready"
    /\ response.kind = "returned"
    /\ response.answer = NotFoundAnswer
    /\ response.generate_calls = 0
    /\ \A j \in 1..Len(vectorizer.vocabulary) :
          Transform(vectorizer, response.question)[j] = 0

(* ------------------------------------------------------------------ *)
(* Failure of the generation service                                   *)
(* ------------------------------------------------------------------ *)
\* the last ask called the generation service and the call raised
ServiceFailed == response.service.called /\ response.service.raises

\* the sources of a response list the retrieved chunks, one for one
SourcesListChunks(r) ==
    /\ Len(r.sources) = Len(r.relevant_chunks)
    /\ \A i \in 1..Len(r.sources) :
          /\ r.sources[i].source = r.relevant_chunks[i].source
          /\ r.sources[i].similarity = r.relevant_chunks[i].similarity

\* what C11 says of a response whose generation call raised
ErrorPayload(r) ==
    /\ r.kind = "returned"
    /\ r.raised = "none"
    /\ r.service.type \in Range(r.answer)
    /\ r.service.message # "" => r.service.message \in Range(r.answer)
    /\ r.relevant_chunks # <<>>
    /\ SourcesListChunks(r)
    /\ r.generate_calls = 1

\* C11: when the generation service call fails during an ask made in Ready,
\* ask raises nothing: it returns a payload whose answer holds the exception
\* type name and the exception message, whose sources list every retrieved
\* chunk, the service having been called once only, and the engine is Ready
\* afterwards with its index untouched.
C11_GenerationFailureRecovered ==
    [][(phase = "Ready" /\ response' # response
        /\ response'.service.called /\ response'.service.raises)
       => /\ ErrorPayload(response')
          /\ phase' = "Ready"
          /\ ~failed'
          /\ UNCHANGED engine]_vars

\* an ask in Ready retrieved two chunks, the service raised with a message,
\* and the error answer came back with both sources
C11_Witness ==
    /\ phase = "Ready" /\ ~failed
    /\ ServiceFailed
    /\ response.service.message # ""
    /\ response.kind = "returned"
    /\ response.answer = GenerateAnswer(response.service)
    /\ Len(response.sources) = 2

(* ------------------------------------------------------------------ *)
(* split_text_into_chunks called directly                              *)
(* ------------------------------------------------------------------ *)
\* texts are drawn from these symbols, up to MaxTextLen symbols long
MaxTextLen == 6

ChunkerSymbols == {"jia", "de", " ", ".", "?"}

ChunkerTexts == UNION {[1..n -> ChunkerSymbols] : n \in 0..MaxTextLen}

\* chunk_size: 0, two small limits and the default
ChunkSizes == {0, 2, 3, DefaultChunkSize}

Overlaps == {0, DefaultOverlap}

\* a constructed engine; split_text_into_chunks is about to be called
InitChunker ==
    /\ docs_dir = <<>>
    /\ chunks_cache = Absent
    /\ vectors_cache = Absent
    /\ documents = <<>>
    /\ doc_chunks = <<>>
    /\ vectorizer = NoVectorizer
    /\ doc_vectors = NoVectors
    /\ phase = "Uninitialized"
    /\ failed = FALSE
    /\ response = NoResponse
    /\ \E text \in ChunkerTexts, chunk_size \in ChunkSizes, overlap \in Overlaps :
          call = [text |-> text, chunk_size |-> chunk_size, overlap |-> overlap,
                  returned |-> FALSE, chunks |-> <<>>]

\* split_text_into_chunks runs and returns
SplitTextIntoChunks ==
    /\ ~call.returned
    /\ call' = [call EXCEPT
                  !.returned = TRUE,
                  !.chunks = split_text_into_chunks(call.text, call.chunk_size,
                                                    call.overlap)]
    /\ UNCHANGED <<disk, engine, phase, failed, response>>

NextChunker == SplitTextIntoChunks

SpecChunker == InitChunker /\ [][NextChunker]_vars

\* a chunk split on the terminator the chunker inserts; what follows the
\* last terminator is a piece only if it is not empty
RECURSIVE SplitOnInserted(_, _)
SplitOnInserted(chunk, piece) ==
    IF chunk = <<>> THEN (IF piece = <<>> THEN <<>> ELSE <<piece>>)
    ELSE IF Head(chunk) = "."
         THEN <<piece>> \o SplitOnInserted(Tail(chunk), <<>>)
         ELSE SplitOnInserted(Tail(chunk), Append(piece, Head(chunk)))

SentencesOfChunk(chunk) == SplitOnInserted(chunk, <<>>)

SentencesOfChunks(chunks) ==
    Flatten([i \in 1..Len(chunks) |-> SentencesOfChunk(chunks[i])])

\* C12: for every text and chunk_size, the chunks split_text_into_chunks
\* returns, split back on the inserted terminator and concatenated in order,
\* are exactly the trimmed non-empty sentences of the text in their order.
C12_ChunksReconstructSentences ==
    call.returned => SentencesOfChunks(call.chunks) = Sentences(call.text)

\* a text of three sentences, one of them given with white space around it,
\* came back as two chunks, one of them holding two sentences
C12_Witness ==
    /\ call.returned
    /\ Len(Sentences(call.text)) = 3
    /\ \E i \in 1..Len(call.text) : call.text[i] \in Whitespace
    /\ Len(call.chunks) = 2
    /\ \E i \in 1..2 : Len(SentencesOfChunk(call.chunks[i])) = 2

\* C13: every chunk split_text_into_chunks returns, for every text and
\* chunk_size (chunk_size 0 and texts without sentence content included), is
\* non-empty and is its own trimmed form; a text with no non-empty sentence
\* gives no chunk at all.
C13_ChunksNonEmptyTrimmed ==
    call.returned =>
        /\ \A i \in 1..Len(call.chunks) :
              /\ call.chunks[i] # <<>>
              /\ Strip(call.chunks[i]) = call.chunks[i]
        /\ Sentences(call.text) = <<>> => call.chunks = <<>>

\* chunk_size 0 on a text that begins with white space and has several
\* sentences: every sentence came back as a chunk of its own
C13_Witness ==
    /\ call.returned
    /\ call.chunk_size = 0
    /\ call.text # <<>> /\ Head(call.text) \in Whitespace
    /\ Len(call.chunks) >= 2
    /\ Len(call.chunks) = Len(Sentences(call.text))

\* a text made of terminators and white space only gave no chunk
C13_NoSentenceReached ==
    /\ call.returned
    /\ Len(call.text) >= 2
    /\ Sentences(call.text) = <<>>
    /\ call.chunks = <<>>

\* the number of sentences in the chunks before chunk i
SentencesBefore(chunks, i) ==
    SeqSum([k \in 1..(i - 1) |-> Len(SentencesOfChunk(chunks[k]))])

\* every chunk holds a run of consecutive sentences of the text, the run of
\* a chunk starting where the run of the chunk before it ends
DisjointRuns(text, chunks) ==
    LET sentences == Sentences(text)
    IN  /\ SentencesBefore(chunks, Len(chunks) + 1) = Len(sentences)
        /\ \A i \in 1..Len(chunks) :
              SentencesOfChunk(chunks[i]) =
                  SubSeq(sentences, SentencesBefore(chunks, i) + 1,
                         SentencesBefore(chunks, i + 1))

\* C14: the chunks do not depend on overlap: every value of overlap gives
\* the chunk sequence the call returned, and consecutive chunks share no
\* sentence (each sentence of the text is in exactly one chunk).
C14_OverlapIgnored ==
    call.returned =>
        /\ \A overlap \in Overlaps :
              split_text_into_chunks(call.text, call.chunk_size, overlap)
                  = call.chunks
        /\ DisjointRuns(call.text, call.chunks)

\* a call with the default overlap of 50 on a limit smaller than it came
\* back with several chunks, one of them holding two sentences
C14_Witness ==
    /\ call.returned
    /\ call.overlap = DefaultOverlap
    /\ call.chunk_size \in 1..(DefaultOverlap - 1)
    /\ Len(call.chunks) >= 2
    /\ \E i \in 1..Len(call.chunks) : Len(SentencesOfChunk(call.chunks[i])) >= 2

\* C18: every chunk split_text_into_chunks returns that holds two or more
\* sentences is at most chunk_size characters long, the inserted terminators
\* counted; only a chunk of a single sentence may be longer.
C18_MultiSentenceChunkWithinLimit ==
    call.returned =>
        \A i \in 1..Len(call.chunks) :
            Len(SentencesOfChunk(call.chunks[i])) >= 2
                => TextLen(call.chunks[i]) <= call.chunk_size

\* a chunk of two sentences came back one character longer than chunk_size
C18_Witness ==
    /\ call.returned
    /\ \E i \in 1..Len(call.chunks) :
          /\ Len(SentencesOfChunk(call.chunks[i])) = 2
          /\ TextLen(call.chunks[i]) = call.chunk_size + 1

(* ------------------------------------------------------------------ *)
(* Failures of initialize                                              *)
(* ------------------------------------------------------------------ *)
\* C15: build_vector_index on an empty chunk sequence fails: initialize
\* raises, the engine does not become Ready and the vector-index artifact is
\* not written, whether the chunks were computed or loaded and whether or not
\* a vector-index artifact is present.
C15_EmptyChunksNotIndexed ==
    [][(phase = "Indexing" /\ ~failed /\ doc_chunks = <<>>)
       => /\ failed'
          /\ phase' # "Ready"
          /\ vectors_cache' = vectors_cache]_vars

\* the engine is Ready on an empty chunk sequence, with the vectors of an
\* artifact written for another corpus
C15_Witness ==
    /\ phase = "Ready" /\ ~failed
    /\ doc_chunks = <<>>
    /\ ~doc_vectors.is_none /\ doc_vectors.rows # <<>>

\* C16: when load_documents finds no document, initialize raises before the
\* chunking and indexing stages: no artifact is loaded, created or modified,
\* the engine holds no chunks and no index, and it never becomes Ready,
\* whatever artifacts are on disk.
C16_NoDocumentsFailsEarly ==
    [][/\ (phase = "Loading" /\ ~failed /\ LoadedFrom(docs_dir) = <<>>)
          => /\ failed' /\ phase' = "Loading"
             /\ UNCHANGED <<chunks_cache, vectors_cache, doc_chunks,
                            vectorizer, doc_vectors>>
       /\ (phase = "Loading" /\ failed)
          => /\ phase' \in {"Loading", "Uninitialized"}
             /\ UNCHANGED <<chunks_cache, vectors_cache>>
             /\ doc_chunks' = <<>>
             /\ vectorizer' = NoVectorizer
             /\ doc_vectors' = NoVectors]_vars

\* initialize raised in the loading stage on a directory whose files are
\* unreadable or empty, with both artifacts readable on disk and none loaded
C16_Witness ==
    /\ phase = "Loading" /\ failed
    /\ docs_dir # <<>>
    /\ documents = <<>>
    /\ chunks_cache.exists /\ chunks_cache.ok
    /\ vectors_cache.exists /\ vectors_cache.ok
    /\ doc_chunks = <<>> /\ doc_vectors.is_none

(* ------------------------------------------------------------------ *)
(* load_documents                                                      *)
(* ------------------------------------------------------------------ *)
Readable(f) == f.readable
ReadableFiles(files) == SelectSeq(files, Readable)

HasContent(f) == f.readable /\ Strip(f.content) # <<>>
FilesWithContent(files) == SelectSeq(files, HasContent)

\* the Documents the last step appended to documents
Appended == SubSeq(documents', Len(documents) + 1, Len(documents'))

\* C17 as stated: load_documents makes one Document of each readable file
\* and skips the unreadable ones without raising, so it adds as many
\* Documents as the directory has readable files.
C17_OneDocumentPerReadableFile ==
    [][(phase = "Loading" /\ ~failed)
       => /\ Len(documents') >= Len(documents)
          /\ Len(Appended) = Len(ReadableFiles(docs_dir))]_vars

\* C17, amended: load_documents makes one Document, holding the stripped
\* content, of each readable file whose content is not empty once stripped,
\* in directory order, and skips the files that are unreadable or empty
\* without raising; it adds as many Documents as there are such files.
C17_OneDocumentPerFileWithContent ==
    [][(phase = "Loading" /\ ~failed)
       => /\ Len(documents') >= Len(documents)
          /\ LET with_content == FilesWithContent(docs_dir)
             IN  /\ Len(Appended) = Len(with_content)
                 /\ \A i \in 1..Len(with_content) :
                       /\ Appended[i].filename = with_content[i].filename
                       /\ Appended[i].content = Strip(with_content[i].content)]_vars

\* a directory whose first file is unreadable and whose last is empty was
\* loaded: the one file with content, listed between them, is the Document
C17_Witness ==
    /\ phase = "Chunking" /\ ~failed
    /\ Len(docs_dir) = 3
    /\ ~docs_dir[1].readable
    /\ docs_dir[3].readable /\ Strip(docs_dir[3].content) = <<>>
    /\ Len(documents) = 1
    /\ documents[1].filename = docs_dir[2].filename

(* ------------------------------------------------------------------ *)
(* The index under queries                                             *)
(* ------------------------------------------------------------------ *)
\* C19: once the engine is Ready, an ask (and the search it makes), whatever
\* it finds and whether or not the generation service fails, changes neither
\* doc_chunks, nor the vectorizer's vocabulary and IDF weights, nor
\* doc_vectors, nor either artifact: the similarity is set on a copy of the
\* chunk record.
C19_QueriesLeaveIndexUnchanged ==
    [][(phase = "Ready" /\ response' # response /\ response'.kind # "none")
       => /\ doc_chunks' = doc_chunks
          /\ vectorizer'.vocabulary = vectorizer.vocabulary
          /\ vectorizer'.idf = vectorizer.idf
          /\ doc_vectors' = doc_vectors
          /\ chunks_cache' = chunks_cache
          /\ vectors_cache' = vectors_cache
          /\ phase' = "Ready"]_vars

\* an ask in Ready returned two results that carry a similarity, the
\* generation service having raised; the stored chunks they were copied from
\* carry none
C19_Witness ==
    /\ phase = "Ready" /\ ~failed
    /\ response.kind = "returned"
    /\ response.service.raises
    /\ Len(response.relevant_chunks) = 2
    /\ Len(response.indices) = 2
    /\ \A k \in 1..2 :
          /\ response.indices[k] \in 1..Len(doc_chunks)
          /\ DOMAIN doc_chunks[response.indices[k]] =
                 {"content", "source", "chunk_id", "full_path"}
          /\ response.relevant_chunks[k].similarity > 0

(* ------------------------------------------------------------------ *)
(* initialize called again on the same engine                          *)
(* ------------------------------------------------------------------ *)
\* initialize is called again only while documents is shorter than this
MaxDocuments == 2

\* initialize is called on an engine whose initialize has returned or
\* raised: the fields are as that call left them
Reinitialize ==
    /\ phase = "Ready" \/ failed
    /\ Len(documents) < MaxDocuments
    /\ phase' = "Loading"
    /\ failed' = FALSE
    /\ UNCHANGED <<disk, engine, response, call>>

\* one engine in one process: the stages of initialize, initialize called
\* again, and ask
NextRetry ==
    \/ Initialize
    \/ LoadDocuments
    \/ PreprocessFromCache
    \/ PreprocessCacheUnreadable
    \/ PreprocessBuild
    \/ PreprocessSaveFails
    \/ BuildFromCache
    \/ BuildCacheUnreadable
    \/ BuildFitFails
    \/ BuildFit
    \/ BuildSaveFails
    \/ Ask
    \/ Reinitialize

SpecRetry == Init /\ [][NextRetry]_vars

\* C20: whatever number of times initialize is called on an engine, after a
\* failed call included, documents holds at most one Document for a corpus
\* file, and the Documents an earlier call created stay as they were.
C20_DocumentsOncePerFile ==
    [][/\ \A i, j \in 1..Len(documents') :
             i # j => documents'[i].path # documents'[j].path
       /\ phase' # "Uninitialized"
          => /\ Len(documents) <= Len(documents')
             /\ SubSeq(documents', 1, Len(documents)) = documents]_vars

\* initialize was called again on the same engine and completed: the one
\* file of the corpus that has content is in documents twice
C20_Witness ==
    /\ phase = "Ready" /\ ~failed
    /\ Len(FilesWithContent(docs_dir)) = 1
    /\ Len(documents) = 2
    /\ documents[1] = documents[2]

====
